---- MODULE Spec2Model ----
(***************************************************************************)
(* Model of project_style_py: the configuration store (config.py), the     *)
(* palette resolver (palettes.py) and the style applicator (styling.py).   *)
(*                                                                         *)
(* Python values are modelled as tagged records.  A dict is an ordered     *)
(* sequence of <<key, value>> pairs with distinct keys (Python dicts keep  *)
(* insertion order); a list is a sequence.                                 *)
(***************************************************************************)
EXTENDS Integers, Sequences, FiniteSets, TLC

VARIABLES
    PALETTES,     \* config._PALETTES
    THEMES,       \* config._THEMES
    rcParams,     \* matplotlib's global style parameters (the modelled keys)
    color_cycle,  \* the palette last handed to sns.set_palette
    registry,     \* names in matplotlib's colormap registry (project ramps)
    last          \* the last public call: its arguments and its outcome

vars == <<PALETTES, THEMES, rcParams, color_cycle, registry, last>>

(* Longest data_labels sequence passed to get_mapped_palette. *)
MaxLabels == 2

-----------------------------------------------------------------------------
(* Python values *)

\* A YAML / Python value that is a list, a dict or None.
PList(l) == [t |-> "list", d |-> <<>>, l |-> l]
PDict(d) == [t |-> "dict", d |-> d, l |-> <<>>]
PNone == [t |-> "none", d |-> <<>>, l |-> <<>>]

\* A style value: a string or a list of strings.
Str(s) == [t |-> "str", s |-> s, l |-> <<>>]
StrList(l) == [t |-> "list", s |-> "", l |-> l]

\* dict operations on a sequence of <<key, value>> pairs
DKeys(d) == [i \in 1..Len(d) |-> d[i][1]]
DValues(d) == [i \in 1..Len(d) |-> d[i][2]]
DHas(d, k) == \E i \in 1..Len(d) : d[i][1] = k
DGet(d, k) == d[CHOOSE i \in 1..Len(d) : d[i][1] = k][2]
DSet(d, k, v) ==
    IF DHas(d, k)
    THEN [i \in 1..Len(d) |-> IF d[i][1] = k THEN <<k, v>> ELSE d[i]]
    ELSE Append(d, <<k, v>>)

RECURSIVE DUpdate(_, _)
DUpdate(d, other) ==
    IF other = <<>> THEN d
    ELSE DUpdate(DSet(d, other[1][1], other[1][2]), Tail(other))

Range(s) == {s[i] : i \in 1..Len(s)}

\* Python truthiness of a store value: None, {} and [] are falsy.
Truthy(v) ==
    CASE v.t = "dict" -> v.d # <<>>
      [] v.t = "list" -> v.l # <<>>
      [] OTHER -> FALSE

\* `name in v` for a dict (key membership) or a list (element membership)
Contains(v, name) ==
    CASE v.t = "dict" -> DHas(v.d, name)
      [] v.t = "list" -> name \in Range(v.l)
      [] OTHER -> FALSE

-----------------------------------------------------------------------------
(* The configuration sources the loaders can be pointed at *)

Labels == {"x", "y", "z"}
\* lexicographic order of the labels, as sorted() orders strings
LabelOrder == <<"x", "y", "z">>
UnseenColors == {"#808080", "#f00"}
PaletteNames == {"A", "B", "default"}
ThemeNames == {"default", "dark"}
FontPaths == {"r1.ttf", "l1.ttf", "m1.ttf"}

\* What reading a source gives: it may be missing / unreachable, it may not be
\* YAML, and otherwise yaml.safe_load gives a value.
File(exists, yaml, value) == [exists |-> exists, yaml |-> yaml, value |-> value]

PaletteSources ==
    {"p1.yaml", "p2.yaml", "p3.yaml", "plist.yaml", "pempty.yaml", "pmissing.yaml", "pbad.yaml"}

PaletteFile(src) ==
    CASE src = "p1.yaml" ->
           File(TRUE, TRUE, PDict(<< <<"A", PList(<<"#111", "#222", "#333">>)>> >>))
      [] src = "p2.yaml" ->
           File(TRUE, TRUE, PDict(<< <<"A", PList(<<"#111", "#222", "#333">>)>>,
                                     <<"B", PDict(<< <<"x", "#000">> >>)>> >>))
      [] src = "p3.yaml" ->
           File(TRUE, TRUE, PDict(<< <<"B", PDict(<< <<"x", "#000">> >>)>>,
                                     <<"default", PList(<<"#111", "#222">>)>> >>))
      [] src = "plist.yaml" -> File(TRUE, TRUE, PList(<<"A", "B">>))
      [] src = "pempty.yaml" -> File(TRUE, TRUE, PNone)
      [] src = "pbad.yaml" -> File(TRUE, FALSE, PNone)
      [] OTHER -> File(FALSE, FALSE, PNone)

\* A theme: its `fonts` entry (kept apart from the other keys) and its
\* remaining settings.
Theme(hasFonts, fonts, settings) ==
    [hasFonts |-> hasFonts, fonts |-> fonts, settings |-> settings]

ThemeSources ==
    {"t1.yaml", "t2.yaml", "tlist.yaml", "tempty.yaml", "tmissing.yaml", "tbad.yaml"}

ThemeFile(src) ==
    CASE src = "t1.yaml" ->
           File(TRUE, TRUE, PDict(<<
               <<"default", Theme(FALSE, <<>>, << <<"figure.dpi", Str("100")>> >>)>> >>))
      [] src = "t2.yaml" ->
           File(TRUE, TRUE, PDict(<<
               <<"default", Theme(TRUE,
                                  << <<"Roboto", <<"r1.ttf">> >>, <<"Lato", <<"l1.ttf">> >> >>,
                                  << <<"figure.dpi", Str("100")>>,
                                     <<"font.family", Str("serif")>> >>)>>,
               <<"dark", Theme(TRUE,
                               << <<"Mono", <<"m1.ttf">> >> >>,
                               << <<"figure.dpi", Str("72")>> >>)>> >>))
      [] src = "tlist.yaml" -> File(TRUE, TRUE, PList(<<"default">>))
      [] src = "tempty.yaml" -> File(TRUE, TRUE, PNone)
      [] src = "tbad.yaml" -> File(TRUE, FALSE, PNone)
      [] OTHER -> File(FALSE, FALSE, PNone)

-----------------------------------------------------------------------------
(* The record of the last call *)

NoCall ==
    [op |-> "none", name |-> "", src |-> "", labels |-> <<>>, unseen |-> "",
     err |-> "", avail |-> <<>>, ret |-> PNone, style_dict |-> <<>>,
     kwargs |-> <<>>, font_dict |-> <<>>, applied |-> FALSE,
     attempted |-> <<>>, prev |-> PNone]

-----------------------------------------------------------------------------
(* config.py *)

\* get_project_palettes / get_project_themes: the store, or the empty error
get_project_palettes == IF Truthy(PALETTES) THEN "" ELSE "Empty"
get_project_themes == IF Truthy(THEMES) THEN "" ELSE "Empty"

\* _fetch_config_content followed by yaml.safe_load, inside the loaders' try:
\* an IOError or a yaml.YAMLError becomes the RuntimeError of the loader.
FetchAndParse(file) == IF file.exists /\ file.yaml THEN "" ELSE "RuntimeError"

\* Mutation of load_project_palettes: the parsed palettes are merged into the
\* collection instead of replacing it.
load_project_palettes_merging(src) ==
    LET file == PaletteFile(src)
        err == FetchAndParse(file)
    IN  /\ PALETTES' = IF err # "" THEN PALETTES
                       ELSE IF file.value.t = "dict" /\ PALETTES.t = "dict"
                       THEN PDict(DUpdate(PALETTES.d, file.value.d))
                       ELSE file.value
        /\ last' = [NoCall EXCEPT !.op = "load_project_palettes", !.src = src,
                                  !.err = err, !.prev = PALETTES]
        /\ UNCHANGED <<THEMES, rcParams, color_cycle, registry>>

load_project_palettes(src) ==
    LET file == PaletteFile(src)
        err == FetchAndParse(file)
    IN  /\ PALETTES' = IF err = "" THEN file.value ELSE PALETTES
        /\ last' = [NoCall EXCEPT !.op = "load_project_palettes", !.src = src,
                                  !.err = err, !.prev = PALETTES]
        /\ UNCHANGED <<THEMES, rcParams, color_cycle, registry>>

RECURSIVE Concat(_)
Concat(ss) == IF ss = <<>> THEN <<>> ELSE Head(ss) \o Concat(Tail(ss))

\* The font files of the loaded themes, in the order lines 101-107 visit them.
FontFilesOf(theme) == IF theme.hasFonts THEN Concat(DValues(theme.fonts)) ELSE <<>>
FontFiles(themes) == Concat([i \in 1..Len(themes) |-> FontFilesOf(themes[i][2])])

\* _add_font over the font files: the files gone through before an IOError (a
\* file that cannot be fetched) leaves the loops; all of them when none fails.
AddFonts(paths, reachable) ==
    IF \E i \in 1..Len(paths) : paths[i] \notin reachable
    THEN SubSeq(paths, 1, CHOOSE i \in 1..Len(paths) :
                            /\ paths[i] \notin reachable
                            /\ \A j \in 1..(i - 1) : paths[j] \in reachable)
    ELSE paths

load_project_themes(src, reachable) ==
    LET file == ThemeFile(src)
        fetched == FetchAndParse(file)
        paths == IF file.value.t = "dict" THEN FontFiles(file.value.d) ELSE <<>>
        attempted == AddFonts(paths, reachable)
        err == CASE fetched # "" -> fetched
                 \* _THEMES.items() on a value that is no dict
                 [] file.value.t # "dict" -> "AttributeError"
                 \* the IOError of _add_font is caught by the loader's except
                 [] Range(attempted) \ reachable # {} -> "RuntimeError"
                 [] OTHER -> ""
    IN  /\ THEMES' = IF fetched = "" THEN file.value ELSE THEMES
        /\ last' = [NoCall EXCEPT !.op = "load_project_themes", !.src = src,
                                  !.err = err, !.prev = THEMES,
                                  !.attempted = IF fetched = "" THEN attempted ELSE <<>>]
        /\ UNCHANGED <<PALETTES, rcParams, color_cycle, registry>>

-----------------------------------------------------------------------------
(* palettes.py *)

\* The lookup shared by the three resolver functions (lines 17-20, 41-46,
\* 81-84): "" when palettes[palette_name] can be read.
Lookup(store, name) ==
    CASE ~Truthy(store) -> "Empty"
      [] store.t = "dict" /\ ~DHas(store.d, name) -> "NotFound"
      \* a list has no keys(): building the message fails
      [] store.t = "list" /\ ~Contains(store, name) -> "AttributeError"
      \* a list cannot be indexed by a name
      [] store.t = "list" -> "TypeError"
      [] OTHER -> ""

\* Mutation of Available: the message names only the first palette.
AvailableFirstOnly(store) ==
    IF store.t = "dict" /\ store.d # <<>> THEN <<store.d[1][1]>> ELSE <<>>

Available(store) == IF store.t = "dict" THEN DKeys(store.d) ELSE <<>>

get_palette(name) ==
    LET err == Lookup(PALETTES, name)
        colors == DGet(PALETTES.d, name)
    IN  /\ last' = [NoCall EXCEPT
                      !.op = "get_palette", !.name = name, !.err = err,
                      !.avail = IF err = "NotFound" THEN Available(PALETTES) ELSE <<>>,
                      !.ret = IF err # "" THEN PNone
                              ELSE IF colors.t = "list" THEN colors
                              ELSE PList(DValues(colors.d))]
        /\ UNCHANGED <<PALETTES, THEMES, rcParams, color_cycle, registry>>

display_project_palette(name, show) ==
    LET err == Lookup(PALETTES, name)
    IN  /\ last' = [NoCall EXCEPT
                      !.op = "display_project_palette", !.name = name, !.err = err,
                      !.avail = IF err = "NotFound" THEN Available(PALETTES) ELSE <<>>,
                      !.ret = IF err # "" THEN PNone ELSE DGet(PALETTES.d, name)]
        /\ UNCHANGED <<PALETTES, THEMES, rcParams, color_cycle, registry>>

\* The orders in which a Python set can be iterated.
Orders(S) == {s \in [1..Cardinality(S) -> S] : Range(s) = S}

\* Mutation of AssignUnseen: every label of the call gets unseen_color, the
\* labels that are already keys included.
RECURSIVE AssignUnseenOverwriting(_, _, _)
AssignUnseenOverwriting(palette, order, unseen_color) ==
    IF order = <<>> THEN palette
    ELSE AssignUnseenOverwriting(DSet(palette, order[1], unseen_color),
                                 Tail(order), unseen_color)

\* lines 52-55: every label not yet a key is inserted with unseen_color
RECURSIVE AssignUnseen(_, _, _)
AssignUnseen(palette, order, unseen_color) ==
    IF order = <<>> THEN palette
    ELSE AssignUnseen(IF DHas(palette, order[1]) THEN palette
                      ELSE DSet(palette, order[1], unseen_color),
                      Tail(order), unseen_color)

\* line 63: sorted(list(data_labels_set))
SortedLabels(S) == SelectSeq(LabelOrder, LAMBDA label : label \in S)

\* line 67: the i-th sorted label gets palette_values[i % len(palette_values)]
CycleMapping(unique_labels, palette_values) ==
    [i \in 1..Len(unique_labels) |->
        <<unique_labels[i], palette_values[((i - 1) % Len(palette_values)) + 1]>>]

\* line 64: palettes[palette_name].values(); only a dict has values()
PaletteValues(colors) ==
    IF colors.t = "dict"
    THEN [err |-> "", values |-> DValues(colors.d)]
    ELSE [err |-> "AttributeError", values |-> <<>>]

get_mapped_palette(name, data_labels, unseen_color) ==
    LET err == Lookup(PALETTES, name)
        data_labels_set == Range(data_labels)
        call == [NoCall EXCEPT !.op = "get_mapped_palette", !.name = name,
                               !.labels = data_labels, !.unseen = unseen_color]
    IN  IF err # ""
        THEN /\ last' = [call EXCEPT !.err = err,
                            !.avail = IF err = "NotFound" THEN Available(PALETTES) ELSE <<>>]
             /\ UNCHANGED <<PALETTES, THEMES, rcParams, color_cycle, registry>>
        ELSE IF DGet(PALETTES.d, name).t = "dict"
        THEN \E order \in Orders(data_labels_set) :
               LET palette == AssignUnseen(DGet(PALETTES.d, name).d, order, unseen_color)
               IN  /\ PALETTES' = PDict(DSet(PALETTES.d, name, PDict(palette)))
                   /\ last' = [call EXCEPT !.ret = PDict(palette)]
                   /\ UNCHANGED <<THEMES, rcParams, color_cycle, registry>>
        ELSE \* a sequence palette (lines 60-67)
             LET unique_labels == SortedLabels(data_labels_set)
                 palette_values == PaletteValues(DGet(PALETTES.d, name))
             IN
             /\ last' = IF data_labels_set = {}
                        THEN [call EXCEPT !.err = "InvalidArgument"]
                        ELSE IF palette_values.err # ""
                        THEN [call EXCEPT !.err = palette_values.err]
                        ELSE [call EXCEPT !.ret =
                                PDict(CycleMapping(unique_labels, palette_values.values))]
             /\ UNCHANGED <<PALETTES, THEMES, rcParams, color_cycle, registry>>

-----------------------------------------------------------------------------
(* styling.py *)

\* plt.rcdefaults(): the defaults of the modelled style keys
RcDefaults ==
    << <<"figure.dpi", Str("100")>>,
       <<"font.family", StrList(<<"sans-serif">>)>>,
       <<"font.sans-serif", StrList(<<"DejaVu Sans">>)>> >>

Overrides ==
    { <<>>,
      << <<"figure.dpi", Str("300")>> >>,
      << <<"font.family", Str("monospace")>> >> }

\* Mutation of StyleDict: the theme's values win over the overrides.
StyleDictThemeFirst(theme_config, kwargs) ==
    LET font_dict == IF theme_config.hasFonts THEN theme_config.fonts ELSE <<>>
        style_dict == theme_config.settings
        with_fonts == IF font_dict # <<>>
                      THEN DSet(DSet(style_dict, "font.family", Str("sans-serif")),
                                "font.sans-serif", StrList(DKeys(font_dict)))
                      ELSE style_dict
    IN  DUpdate(kwargs, with_fonts)

\* lines 105-117: the mapping handed to plt.rcParams.update
StyleDict(theme_config, kwargs) ==
    LET font_dict == IF theme_config.hasFonts THEN theme_config.fonts ELSE <<>>
        style_dict == theme_config.settings
        with_fonts == IF font_dict # <<>>
                      THEN DSet(DSet(style_dict, "font.family", Str("sans-serif")),
                                "font.sans-serif", StrList(DKeys(font_dict)))
                      ELSE style_dict
    IN  DUpdate(with_fonts, kwargs)

\* line 105: theme_config.pop('fonts', {}) takes the entry out of the stored theme
PopFonts(theme_config) == Theme(FALSE, <<>>, theme_config.settings)

\* the names a ramp and its reversed form are registered under
Ramp(name) == [palette |-> name, reversed |-> FALSE]
RampR(name) == [palette |-> name, reversed |-> TRUE]

\* cm.register(cmap): a name already in the registry raises ValueError
CanRegister(reg, cmap) == cmap \notin reg

\* _register_continuous_cmaps: the loop of lines 76-83 inside try/except
\* ValueError, which ends the loop at the first name that is already registered.
RECURSIVE RegisterCmaps(_, _)
RegisterCmaps(reg, palettes) ==
    IF palettes = <<>> THEN reg
    ELSE LET name == palettes[1][1]
         IN  IF ~CanRegister(reg, Ramp(name)) THEN reg
             ELSE IF ~CanRegister(reg \cup {Ramp(name)}, RampR(name))
             THEN reg \cup {Ramp(name)}
             ELSE RegisterCmaps(reg \cup {Ramp(name), RampR(name)}, Tail(palettes))

\* lines 122-123: the palette handed to sns.set_palette
DefaultPalette(palettes) ==
    LET default_palette == IF DHas(palettes, "default")
                           THEN DGet(palettes, "default")
                           ELSE palettes[1][2]
    IN  IF default_palette.t = "dict" THEN DValues(default_palette.d)
        ELSE default_palette.l

set_project_style(theme_name, clean_style, kwargs) ==
    LET found == Lookup(THEMES, theme_name)
        call == [NoCall EXCEPT !.op = "set_project_style", !.name = theme_name,
                               !.kwargs = kwargs]
        theme_config == DGet(THEMES.d, theme_name)
        style_dict == StyleDict(theme_config, kwargs)
        \* palettes.get on a store that is a non-empty list
        err == IF Truthy(PALETTES) /\ PALETTES.t # "dict" THEN "AttributeError" ELSE ""
    IN  IF found # ""
        THEN /\ last' = [call EXCEPT !.err = found,
                            !.avail = IF found = "NotFound" THEN Available(THEMES) ELSE <<>>]
             /\ UNCHANGED <<PALETTES, THEMES, rcParams, color_cycle, registry>>
        ELSE /\ THEMES' = PDict(DSet(THEMES.d, theme_name, PopFonts(theme_config)))
             /\ rcParams' = DUpdate(IF clean_style THEN RcDefaults ELSE rcParams, style_dict)
             /\ color_cycle' = IF get_project_palettes = "" /\ err = ""
                               THEN DefaultPalette(PALETTES.d)
                               ELSE color_cycle
             /\ registry' = IF get_project_palettes = "" /\ err = ""
                            THEN RegisterCmaps(registry, PALETTES.d)
                            ELSE registry
             /\ last' = [call EXCEPT !.err = err, !.style_dict = style_dict,
                                     !.applied = TRUE,
                                     !.font_dict = IF theme_config.hasFonts
                                                   THEN theme_config.fonts ELSE <<>>]
             /\ UNCHANGED PALETTES

-----------------------------------------------------------------------------

LabelSeqs == UNION {[1..n -> Labels] : n \in 0..MaxLabels}

Init ==
    /\ PALETTES = PDict(<<>>)
    /\ THEMES = PDict(<<>>)
    /\ rcParams = RcDefaults
    /\ color_cycle = <<>>
    /\ registry = {}
    /\ last = NoCall

LoadPalettes == \E src \in PaletteSources : load_project_palettes(src)
GetPalette == \E name \in PaletteNames : get_palette(name)
DisplayPalette == \E name \in PaletteNames, show \in BOOLEAN : display_project_palette(name, show)
GetMappedPalette ==
    \E name \in PaletteNames, data_labels \in LabelSeqs, unseen_color \in UnseenColors :
        get_mapped_palette(name, data_labels, unseen_color)

LoadThemes ==
    \E src \in ThemeSources, reachable \in SUBSET FontPaths : load_project_themes(src, reachable)
SetStyle ==
    \E theme_name \in ThemeNames, clean_style \in BOOLEAN, kwargs \in Overrides :
        set_project_style(theme_name, clean_style, kwargs)

Next ==
    \/ LoadPalettes
    \/ LoadThemes
    \/ GetPalette
    \/ DisplayPalette
    \/ GetMappedPalette
    \/ SetStyle

Spec == Init /\ [][Next]_vars

\* The properties are checked on three parts of Next.  Each part leaves out
\* only calls that do not write the variables its properties read:
\* load_project_themes and set_project_style never write PALETTES; get_palette
\* and display_project_palette write nothing; set_project_style does not enter
\* the loaders; the labels get_mapped_palette inserts do not change which
\* palettes the store holds nor any theme.

\* the palette resolver over a store that is reloaded
NextPalettes == LoadPalettes \/ GetPalette \/ DisplayPalette \/ GetMappedPalette
SpecPalettes == Init /\ [][NextPalettes]_vars

\* the loaders, with the resolver call that writes to the store
NextLoad == LoadPalettes \/ LoadThemes \/ GetMappedPalette
SpecLoad == Init /\ [][NextLoad]_vars

\* the style applicator over stores that are reloaded
NextStyle == LoadPalettes \/ LoadThemes \/ SetStyle
SpecStyle == Init /\ [][NextStyle]_vars

-----------------------------------------------------------------------------
(* Properties *)

ResolverOps == {"get_palette", "get_mapped_palette", "display_project_palette"}

\* name is a key of the palette collection
IsPalette(store, name) == store.t = "dict" /\ DHas(store.d, name)
IsMappingPalette(store, name) == IsPalette(store, name) /\ DGet(store.d, name).t = "dict"
IsSequencePalette(store, name) == IsPalette(store, name) /\ DGet(store.d, name).t = "list"

\* C1: for a palette stored as a color list and a non-empty collection of
\* labels, get_mapped_palette returns the mapping whose keys are the distinct
\* labels, the i-th label of the sorted de-duplicated labels getting
\* palette[i mod len(palette)].
C1_SequenceMapping ==
    (/\ last.op = "get_mapped_palette"
     /\ IsSequencePalette(PALETTES, last.name)
     /\ last.labels # <<>>)
    => /\ last.err = ""
       /\ last.ret = PDict(CycleMapping(SortedLabels(Range(last.labels)),
                                        DGet(PALETTES.d, last.name).l))

\* C2: between two load_palettes calls a label that is a key of a
\* mapping-form palette stays a key with the same color; a get_mapped_palette
\* call inserts exactly the labels that were not yet keys, with its
\* unseen_color, and returns the stored mapping; get_palette returns the
\* colors of the stored mapping, inserted labels included.
C2_StepKeeps(name) ==
    LET old == DGet(PALETTES.d, name).d
        new == DGet(PALETTES'.d, name).d
        mapped == last'.op = "get_mapped_palette" /\ last'.name = name
    IN  /\ IsMappingPalette(PALETTES', name)
        /\ \A i \in 1..Len(old) : DHas(new, old[i][1]) /\ DGet(new, old[i][1]) = old[i][2]
        /\ Range(DKeys(new)) =
              Range(DKeys(old)) \cup (IF mapped THEN Range(last'.labels) ELSE {})
        /\ \A i \in 1..Len(new) : ~DHas(old, new[i][1]) => new[i][2] = last'.unseen
        /\ mapped => last'.err = "" /\ last'.ret = PDict(new)
        /\ (last'.op = "get_palette" /\ last'.name = name)
              => last'.err = "" /\ last'.ret = PList(DValues(new))

C3_LoadReplaces ==
    [][/\ (last'.op = "load_project_palettes" /\ last'.err = "")
            => PALETTES' = PaletteFile(last'.src).value /\ THEMES' = THEMES
       /\ (last'.op = "load_project_themes" /\ last'.err = "")
            => THEMES' = ThemeFile(last'.src).value /\ PALETTES' = PALETTES]_vars

\* C3 witness: a successful load_palettes over a collection that held a
\* palette name the new source lacks and a label inserted by get_mapped_palette.
C3_Witness ==
    /\ last.op = "load_project_palettes"
    /\ last.err = ""
    /\ PALETTES.t = "dict"
    /\ \E name \in PaletteNames : IsPalette(last.prev, name) /\ ~IsPalette(PALETTES, name)
    /\ \E name \in PaletteNames :
         /\ IsMappingPalette(last.prev, name)
         /\ IsMappingPalette(PALETTES, name)
         /\ \E label \in Labels :
              /\ DHas(DGet(last.prev.d, name).d, label)
              /\ DGet(DGet(last.prev.d, name).d, label) \in UnseenColors
              /\ ~DHas(DGet(PALETTES.d, name).d, label)

\* C4: when the themes source is fetched and parsed as a mapping, load_themes
\* completes normally whatever happens to the font files: the theme
\* collection is the parsed one and every listed font file is attempted.
C4_FontFailureNonFatal ==
    (/\ last.op = "load_project_themes"
     /\ FetchAndParse(ThemeFile(last.src)) = ""
     /\ ThemeFile(last.src).value.t = "dict")
    => /\ last.err = ""
       /\ THEMES = ThemeFile(last.src).value
       /\ last.attempted = FontFiles(ThemeFile(last.src).value.d)

\* C5: a source whose text parses to something that is no mapping makes the
\* load fail with the configuration load error and is never installed.
C5_NonMappingRejected ==
    /\ (last.op = "load_project_palettes"
        /\ FetchAndParse(PaletteFile(last.src)) = ""
        /\ PaletteFile(last.src).value.t # "dict")
       => last.err = "RuntimeError" /\ PALETTES.t = "dict"
    /\ (last.op = "load_project_themes"
        /\ FetchAndParse(ThemeFile(last.src)) = ""
        /\ ThemeFile(last.src).value.t # "dict")
       => last.err = "RuntimeError" /\ THEMES.t = "dict"

\* C6 as claimed: in every store state, the empty one included, a resolver
\* call with a name that is no key of the palette collection fails with Not
\* Found, lists every name of the collection and leaves the collection alone.
C6_NotFoundEverywhere ==
    [][(last'.op \in ResolverOps /\ ~IsPalette(PALETTES, last'.name))
          => /\ last'.err = "NotFound"
             /\ last'.avail = Available(PALETTES)
             /\ PALETTES' = PALETTES]_vars

\* C6 amended: when the palette collection is a non-empty mapping, a resolver
\* call with a name that is no key fails with Not Found listing every name of
\* the collection; when the collection is empty the call fails with the empty
\* configuration error instead; the collection is unchanged in both cases.
C6_NotFoundWhenLoaded ==
    [][(last'.op \in ResolverOps /\ ~IsPalette(PALETTES, last'.name) /\ PALETTES.t = "dict")
          => /\ last'.err = IF PALETTES.d = <<>> THEN "Empty" ELSE "NotFound"
             /\ PALETTES.d # <<>> => last'.avail = DKeys(PALETTES.d)
             /\ PALETTES' = PALETTES]_vars

\* C6 witness: a Not Found failure over a collection of two palettes
C6_Witness ==
    /\ last.op \in ResolverOps
    /\ last.err = "NotFound"
    /\ PALETTES.t = "dict"
    /\ Len(PALETTES.d) = 2
    /\ last.avail = DKeys(PALETTES.d)

\* C7: after a set_style call that returns, the ramp and the reversed ramp of
\* every palette in the store are in the colormap registry.
C7_RampsRegistered ==
    (last.op = "set_project_style" /\ last.err = "" /\ PALETTES.t = "dict")
    => \A i \in 1..Len(PALETTES.d) :
          Ramp(PALETTES.d[i][1]) \in registry /\ RampR(PALETTES.d[i][1]) \in registry

\* C8: two set_style calls in a row on the same theme with the same overrides
\* apply the same mapping (so a theme loaded with fonts gets its sans-serif
\* font-family setting on the second call as on the first).
C8_SameStyleTwice ==
    [][(/\ last.op = "set_project_style" /\ last.applied
        /\ last'.op = "set_project_style" /\ last'.applied
        /\ last'.name = last.name
        /\ last'.kwargs = last.kwargs)
          => last'.style_dict = last.style_dict]_vars

StyleKeys(d) == Range(DKeys(d))

\* C9 as claimed: the applied mapping has the value of overrides for every key
\* of overrides and the theme's value for every other key of the theme.
C9_MergeAsClaimed ==
    (last.op = "set_project_style" /\ last.applied)
    => LET theme == DGet(THEMES.d, last.name).settings
       IN  /\ \A k \in StyleKeys(last.kwargs) :
                DHas(last.style_dict, k) /\ DGet(last.style_dict, k) = DGet(last.kwargs, k)
           /\ \A k \in StyleKeys(theme) \ StyleKeys(last.kwargs) :
                DHas(last.style_dict, k) /\ DGet(last.style_dict, k) = DGet(theme, k)

\* C9 amended: as claimed, except that when the call finds a non-empty fonts
\* sub-mapping the keys font.family and font.sans-serif, unless overridden,
\* are "sans-serif" and the list of the declared font names, whatever the
\* theme gives for them; the applied mapping has no other key.
C9_MergeWithFonts ==
    (last.op = "set_project_style" /\ last.applied)
    => LET theme == DGet(THEMES.d, last.name).settings
           fontKeys == IF last.font_dict # <<>>
                       THEN {"font.family", "font.sans-serif"} ELSE {}
       IN  /\ StyleKeys(last.style_dict) =
                 StyleKeys(theme) \cup StyleKeys(last.kwargs) \cup fontKeys
           /\ \A k \in StyleKeys(last.kwargs) :
                DGet(last.style_dict, k) = DGet(last.kwargs, k)
           /\ \A k \in fontKeys \ StyleKeys(last.kwargs) :
                DGet(last.style_dict, k) =
                   IF k = "font.family" THEN Str("sans-serif")
                   ELSE StrList(DKeys(last.font_dict))
           /\ \A k \in StyleKeys(theme) \ (StyleKeys(last.kwargs) \cup fontKeys) :
                DGet(last.style_dict, k) = DGet(theme, k)

\* C9 witness: an override replaces the value the theme gives for the same key
\* while another key of the theme keeps the theme's value.
C9_Witness ==
    /\ last.op = "set_project_style"
    /\ last.applied
    /\ \E k \in StyleKeys(last.kwargs) :
         /\ DHas(DGet(THEMES.d, last.name).settings, k)
         /\ DGet(DGet(THEMES.d, last.name).settings, k) # DGet(last.kwargs, k)
         /\ DGet(last.style_dict, k) = DGet(last.kwargs, k)
    /\ \E k \in StyleKeys(DGet(THEMES.d, last.name).settings) \ StyleKeys(last.kwargs) :
         DGet(last.style_dict, k) = DGet(DGet(THEMES.d, last.name).settings, k)

\* C10: a load that ends by raising leaves its collection as it was before
\* the call.
C10_FailedLoadKeepsStore ==
    /\ (last.op = "load_project_palettes" /\ last.err # "") => PALETTES = last.prev
    /\ (last.op = "load_project_themes" /\ last.err # "") => THEMES = last.prev

====
